---- MODULE Spec2Model ----
(***************************************************************************)
(* A model of importsource/vic's image storage layer                       *)
(* (lib/portlayer/storage/image.go) and of the vic-machine upgrade command *)
(* (Upgrade.Run).                                                          *)
(*                                                                         *)
(* Go strings are sequences of one-character strings, so that              *)
(* filepath.Clean, strings.Split, URL.String and url.Parse are computed    *)
(* character by character.  Go slices are 0-based and TLA+ sequences are   *)
(* 1-based: At(s, k) reads the Go index k.                                 *)
(***************************************************************************)
EXTENDS Naturals, Sequences, FiniteSets

VARIABLES
    \* ---- storage.Parse -------------------------------------------------
    ppc,        \* "call" before Parse runs, "done" after it returned
    pu,         \* the *url.URL handed to Parse
    pret,       \* what Parse returned (an Image, an error) or that it panicked
    \* ---- Image.Copy / Self / Parent on a heap of Go objects ------------
    images,     \* sequence of Image structs; fields hold pointers
    urls,       \* heap of url.URL objects:   pointer -> URL value
    maps,       \* heap of map[string][]byte: pointer -> (key -> slice pointer)
    bufs,       \* heap of byte arrays:       pointer -> sequence of bytes
    copyOf,     \* copyOf[c] = index of the Image c was copied from (0: none)
    last,       \* the last operation: its kind, its receiver, what it returned
    nmut,       \* number of mutations applied so far
    \* ---- ImageStorer.WriteImage ----------------------------------------
    layers,     \* the store's layer set: layer id -> the Layer admitted
    wpc,        \* each writer's position in writeLayer
    wres,       \* each writer's outcome
    wreq,       \* each writer's request
    \* ---- Upgrade.Run ---------------------------------------------------
    rpc,        \* position in Run
    rin,        \* the outcomes the collaborators will produce
    rtrace,     \* the steps run so far, in order
    rret,       \* what Run returned
    insecure    \* u.Insecure

parseVars == <<ppc, pu, pret>>
imageVars == <<images, urls, maps, bufs, copyOf, last, nmut>>
storeVars == <<layers, wpc, wres, wreq>>
runVars == <<rpc, rin, rtrace, rret, insecure>>
vars == <<parseVars, imageVars, storeVars, runVars>>

\* Each part of the program leaves the state of the other parts alone.
ParseFrame == UNCHANGED <<imageVars, storeVars, runVars>>
ImageFrame == UNCHANGED <<parseVars, storeVars, runVars>>
StoreFrame == UNCHANGED <<parseVars, imageVars, runVars>>
RunFrame == UNCHANGED <<parseVars, imageVars, storeVars>>

(***************************************************************************)
(* Bounds of the model.                                                    *)
(***************************************************************************)
MaxSegs == 5
MaxImages == 2
MaxMutations == 1

(***************************************************************************)
(* Strings.                                                                *)
(***************************************************************************)
Slash == "/"
EmptyStr == <<>>
Dot == <<".">>
DotDot == <<".", ".">>
NameA == <<"a">>
NameB == <<"b">>

At(s, k) == s[k + 1]

HasChar(s, c) == \E i \in 1..Len(s) : s[i] = c

\* strings.IndexByte, 1-based; 0 when c is not in s
IndexByte(s, c) ==
    IF HasChar(s, c)
    THEN CHOOSE i \in 1..Len(s) : s[i] = c /\ \A j \in 1..(i - 1) : s[j] # c
    ELSE 0

HasPrefix(s, p) == Len(s) >= Len(p) /\ SubSeq(s, 1, Len(p)) = p

RECURSIVE Split(_, _)
\* strings.Split(s, sep) for a one-character separator
Split(s, sep) ==
    LET i == IndexByte(s, sep)
    IN  IF i = 0
        THEN <<s>>
        ELSE <<SubSeq(s, 1, i - 1)>> \o Split(SubSeq(s, i + 1, Len(s)), sep)

RECURSIVE Join(_, _)
\* strings.Join(segs, sep)
Join(segs, sep) ==
    IF Len(segs) = 0 THEN EmptyStr
    ELSE IF Len(segs) = 1 THEN segs[1]
    ELSE segs[1] \o <<sep>> \o Join(Tail(segs), sep)

\* filepath.IsAbs on unix: the path starts with a slash
IsAbs(p) == Len(p) > 0 /\ p[1] = Slash

RECURSIVE CleanElems(_, _, _, _)
\* The element loop of filepath.Clean: out is the output built so far (its
\* elements), dotdot the number of leading ".." elements that cannot be popped.
CleanElems(elems, out, dotdot, rooted) ==
    IF Len(elems) = 0 THEN out
    ELSE LET e == Head(elems)
             rest == Tail(elems)
         IN  IF e = EmptyStr \/ e = Dot
             THEN CleanElems(rest, out, dotdot, rooted)
             ELSE IF e = DotDot
             THEN IF Len(out) > dotdot
                  THEN CleanElems(rest, SubSeq(out, 1, Len(out) - 1), dotdot, rooted)
                  ELSE IF ~rooted
                  THEN CleanElems(rest, Append(out, DotDot), dotdot + 1, rooted)
                  ELSE CleanElems(rest, out, dotdot, rooted)
             ELSE CleanElems(rest, Append(out, e), dotdot, rooted)

\* filepath.Clean on unix
Clean(p) ==
    IF Len(p) = 0 THEN Dot
    ELSE LET rooted == p[1] = Slash
             out == CleanElems(Split(p, Slash), <<>>, 0, rooted)
         IN  IF rooted THEN <<Slash>> \o Join(out, Slash)
             ELSE IF Len(out) = 0 THEN Dot
             ELSE Join(out, Slash)

(***************************************************************************)
(* url.URL values.  Only the fields that URL.String renders and url.Parse  *)
(* fills are kept.                                                         *)
(***************************************************************************)
URL(scheme, opaque, host, path) ==
    [Scheme |-> scheme, Opaque |-> opaque, Host |-> host, Path |-> path]

PathURL(path) == URL(EmptyStr, EmptyStr, EmptyStr, path)

NoURL == PathURL(EmptyStr)

(***************************************************************************)
(* lib/portlayer/util: the storage namespace.                              *)
(***************************************************************************)
StorageURLPath == <<"s", "t", "o", "r", "a", "g", "e">>

\* util.ImageStoreNameToURL: the store address /storage/<storeName>
ImageStoreNameToURL(storeName) ==
    [url |-> PathURL(<<Slash>> \o StorageURLPath \o <<Slash>> \o storeName),
     err |-> "nil"]

(***************************************************************************)
(* storage.Parse                                                           *)
(***************************************************************************)
NilImage == [ID |-> EmptyStr, SelfLink |-> NoURL, Store |-> NoURL]

ErrRet(msg) == [kind |-> "error", err |-> msg, img |-> NilImage]
PanicRet == [kind |-> "panic", err |-> "index out of range", img |-> NilImage]
ImageRet(i) == [kind |-> "image", err |-> "nil", img |-> i]
NoRet == [kind |-> "none", err |-> "nil", img |-> NilImage]

\* segments := strings.Split(filepath.Clean(u.Path), "/")
Segments(path) == Split(Clean(path), Slash)

NotStoragePath_AtOne(segments) == At(segments, 1) # StorageURLPath

\* if segments[0] != util.StorageURLPath
NotStoragePath(segments) == At(segments, 0) # StorageURLPath

\* if len(segments) < 3
SegmentCountGuard(segments) == Len(segments) < 3

\* segments[2] and segments[3], the two reads after the guard, are in range
ReadsInRange(segments) == 2 < Len(segments) /\ 3 < Len(segments)

Parse(u) ==
    IF ~IsAbs(u.Path) THEN ErrRet("invalid uri path")
    ELSE LET segments == Segments(u.Path)
         IN  IF NotStoragePath(segments) THEN ErrRet("not a storage path")
             ELSE IF SegmentCountGuard(segments) THEN ErrRet("uri path mismatch")
             ELSE IF ~(2 < Len(segments)) THEN PanicRet
             ELSE LET store == ImageStoreNameToURL(At(segments, 2))
                  IN  IF store.err # "nil" THEN ErrRet(store.err)
                      ELSE IF ~(3 < Len(segments)) THEN PanicRet
                      ELSE ImageRet([ID |-> At(segments, 3),
                                     SelfLink |-> u,
                                     Store |-> store.url])

\* The path segments a caller may put between slashes.
PathSegs == {EmptyStr, Dot, DotDot, StorageURLPath, NameA, NameB}

\* Every path of at most MaxSegs segments: absolute ones start with an
\* empty segment, "//" and a trailing slash come from empty segments too.
ParsePaths ==
    {Join(segs, Slash) : segs \in UNION {[1..n -> PathSegs] : n \in 1..MaxSegs}}

ParseIdle == ppc = "idle" /\ pu = NoURL /\ pret = NoRet

ParseInit == ppc = "call" /\ pu \in {PathURL(p) : p \in ParsePaths} /\ pret = NoRet

\* A caller runs Parse(u) to its return.
ParseCall ==
    /\ ppc = "call"
    /\ pret' = Parse(pu)
    /\ ppc' = "done"
    /\ UNCHANGED pu
    /\ ParseFrame

(***************************************************************************)
(* net/url as Image.Copy uses it: url.Parse(x.String()).                   *)
(* The model's URLs hold lower-case letters, digits, '.', '/', ' ' and '%' *)
(* in their paths, and letters in scheme and host; they have no user       *)
(* info, query or fragment.                                                *)
(***************************************************************************)
Letters == {"a", "b", "e", "g", "h", "o", "p", "r", "s", "t", "x", "y"}
Digits == {"0", "2", "5"}

Http == <<"h", "t", "t", "p">>
HostH == <<"h">>

RECURSIVE EscapePath(_)
\* url.escape(s, encodePath): of the model's characters only ' ' and '%'
\* are escaped
EscapePath(s) ==
    IF Len(s) = 0 THEN EmptyStr
    ELSE (IF Head(s) = " " THEN <<"%", "2", "0">>
          ELSE IF Head(s) = "%" THEN <<"%", "2", "5">>
          ELSE <<Head(s)>>) \o EscapePath(Tail(s))

RECURSIVE Unescape(_)
\* url.unescape(s, encodePath): [s, err]; "%20" and "%25" are the escapes
\* EscapePath writes, any other '%' is an invalid escape here
Unescape(s) ==
    IF Len(s) = 0 THEN [s |-> EmptyStr, err |-> "nil"]
    ELSE IF Head(s) # "%"
    THEN LET r == Unescape(Tail(s))
         IN  [s |-> <<Head(s)>> \o r.s, err |-> r.err]
    ELSE IF Len(s) >= 3 /\ s[2] = "2" /\ s[3] \in {"0", "5"}
    THEN LET r == Unescape(SubSeq(s, 4, Len(s)))
         IN  [s |-> <<(IF s[3] = "0" THEN " " ELSE "%")>> \o r.s, err |-> r.err]
    ELSE [s |-> EmptyStr, err |-> "invalid URL escape"]

\* URL.String
UrlString(u) ==
    LET scheme == IF u.Scheme # EmptyStr THEN u.Scheme \o <<":">> ELSE EmptyStr
        path == EscapePath(u.Path)
        authority ==
            IF u.Scheme # EmptyStr \/ u.Host # EmptyStr
            THEN (IF u.Host # EmptyStr \/ u.Path # EmptyStr
                  THEN <<Slash, Slash>> ELSE EmptyStr) \o u.Host
            ELSE EmptyStr
        sep == IF path # EmptyStr /\ path[1] # Slash /\ u.Host # EmptyStr
               THEN <<Slash>> ELSE EmptyStr
    IN  IF u.Opaque # EmptyStr THEN scheme \o u.Opaque
        ELSE scheme \o authority \o sep \o path

RECURSIVE GetScheme(_, _)
\* url.getscheme, scanning rawurl from Go index i: [scheme, rest, err]
GetScheme(rawurl, i) ==
    IF i >= Len(rawurl) THEN [scheme |-> EmptyStr, rest |-> rawurl, err |-> "nil"]
    ELSE LET c == At(rawurl, i)
         IN  IF c \in Letters THEN GetScheme(rawurl, i + 1)
             ELSE IF c \in Digits \cup {"+", "-", "."}
             THEN IF i = 0
                  THEN [scheme |-> EmptyStr, rest |-> rawurl, err |-> "nil"]
                  ELSE GetScheme(rawurl, i + 1)
             ELSE IF c = ":"
             THEN IF i = 0
                  THEN [scheme |-> EmptyStr, rest |-> EmptyStr,
                        err |-> "missing protocol scheme"]
                  ELSE [scheme |-> SubSeq(rawurl, 1, i),
                        rest |-> SubSeq(rawurl, i + 2, Len(rawurl)),
                        err |-> "nil"]
             ELSE [scheme |-> EmptyStr, rest |-> rawurl, err |-> "nil"]

UrlErr(msg) == [url |-> NoURL, err |-> msg]

\* url.Parse (parse with viaRequest = false): [url, err]
UrlParse(rawurl) ==
    LET g == GetScheme(rawurl, 0)
        rest == g.rest
        colon == IndexByte(rest, ":")
        slash == IndexByte(rest, Slash)
        hasAuthority == (g.scheme # EmptyStr \/ ~HasPrefix(rest, <<Slash, Slash, Slash>>))
                        /\ HasPrefix(rest, <<Slash, Slash>>)
        after == SubSeq(rest, 3, Len(rest))
        cut == IndexByte(after, Slash)
        host == IF ~hasAuthority THEN EmptyStr
                ELSE IF cut = 0 THEN after ELSE SubSeq(after, 1, cut - 1)
        rawpath == IF ~hasAuthority THEN rest
                   ELSE IF cut = 0 THEN EmptyStr ELSE SubSeq(after, cut, Len(after))
        path == Unescape(rawpath)
    IN  IF g.err # "nil" THEN UrlErr(g.err)
        ELSE IF ~HasPrefix(rest, <<Slash>>) /\ g.scheme # EmptyStr
        THEN [url |-> URL(g.scheme, rest, EmptyStr, EmptyStr), err |-> "nil"]
        ELSE IF ~HasPrefix(rest, <<Slash>>) /\ colon > 0 /\ (slash = 0 \/ colon < slash)
        THEN UrlErr("first path segment in URL cannot contain colon")
        ELSE IF path.err # "nil" THEN UrlErr(path.err)
        ELSE [url |-> URL(g.scheme, EmptyStr, host, path.s), err |-> "nil"]

(***************************************************************************)
(* Image, on a heap: the struct's pointer fields (SelfLink, ParentLink,    *)
(* Store, the Metadata map and its []byte values) are indexes into urls,   *)
(* maps and bufs; Nil is Go's nil.                                         *)
(***************************************************************************)
Nil == 0

Image(id, selflink, parentlink, store, metadata) ==
    [ID |-> id, SelfLink |-> selflink, ParentLink |-> parentlink,
     Store |-> store, Metadata |-> metadata]

MetaKeys == <<"k1", "k2">>
Bytes == {1, 2}

NoOp == [op |-> "none", recv |-> 0, ret |-> 0, str |-> EmptyStr]
Op(op, recv, ret, str) == [op |-> op, recv |-> recv, ret |-> ret, str |-> str]

\* func (i *Image) Self() string
Self(img) == UrlString(urls[img.SelfLink])

Parent_NoFallback(img) ==
    IF img.ParentLink # Nil THEN UrlString(urls[img.ParentLink]) ELSE EmptyStr

\* func (i *Image) Parent() string
Parent(img) ==
    IF img.ParentLink # Nil THEN UrlString(urls[img.ParentLink]) ELSE Self(img)

HasMetadata_NonEmpty(img) ==
    img.Metadata # Nil /\ DOMAIN maps[img.Metadata] # {}

\* if i.Metadata != nil
HasMetadata(img) == img.Metadata # Nil

CopyBytes_Short(v) == SubSeq(v, 1, Len(v) - 1)

\* buf := make([]byte, len(v)); copy(buf, v)
CopyBytes(v) == v

CopiedBuf_Alias(v, buf) == v

\* c.Metadata[k] = buf: the copy's map holds the new array buf, not v
CopiedBuf(v, buf) == buf

\* The keys of map m in the order the model allocates their copies.  Go
\* ranges over a map in an unspecified order; the order decides only which
\* address each new array gets.
KeysOf(m) == SelectSeq(MetaKeys, LAMBDA k : k \in DOMAIN m)

PosOf(seq, k) == CHOOSE j \in 1..Len(seq) : seq[j] = k

\* A new url.URL on the heap for what url.Parse returned, or none (nil)
\* when it returned an error.
AllocURL(heap, parsed) == IF parsed.err = "nil" THEN Append(heap, parsed.url) ELSE heap
PtrURL(heap, parsed) == IF parsed.err = "nil" THEN Len(heap) + 1 ELSE Nil

\* func (i *Image) Copy() index.Element
Copy(i) ==
    /\ i \in 1..Len(images)
    /\ Len(images) < MaxImages
    /\ ImageFrame
    /\ LET img == images[i]
       IN  IF img.SelfLink = Nil \/ img.Store = Nil
           THEN \* i.SelfLink.String() on a nil *url.URL
                /\ last' = Op("panic", i, 0, EmptyStr)
                /\ UNCHANGED <<images, urls, maps, bufs, copyOf, nmut>>
           ELSE LET selflink == UrlParse(UrlString(urls[img.SelfLink]))
                    store == UrlParse(UrlString(urls[img.Store]))
                    urls1 == AllocURL(urls, selflink)
                    urls2 == AllocURL(urls1, store)
                    parent == IF img.ParentLink # Nil
                              THEN UrlParse(UrlString(urls[img.ParentLink]))
                              ELSE UrlErr("no parent")
                    urls3 == AllocURL(urls2, parent)
                    m == IF img.Metadata # Nil THEN maps[img.Metadata] ELSE <<>>
                    keys == KeysOf(m)
                    newmap == [k \in DOMAIN m |->
                                 CopiedBuf(m[k], Len(bufs) + PosOf(keys, k))]
                    c == Image(img.ID, PtrURL(urls, selflink), PtrURL(urls2, parent),
                               PtrURL(urls1, store),
                               IF HasMetadata(img) THEN Len(maps) + 1 ELSE Nil)
                IN  /\ urls' = urls3
                    /\ maps' = IF HasMetadata(img) THEN Append(maps, newmap) ELSE maps
                    /\ bufs' = IF HasMetadata(img)
                               THEN bufs \o [j \in 1..Len(keys) |-> CopyBytes(bufs[m[keys[j]]])]
                               ELSE bufs
                    /\ images' = Append(images, c)
                    /\ copyOf' = Append(copyOf, i)
                    /\ last' = Op("Copy", i, Len(images) + 1, EmptyStr)
                    /\ UNCHANGED nmut

\* A caller reads i.Parent()
CallParent(i) ==
    /\ i \in 1..Len(images)
    /\ ImageFrame
    /\ last' = IF images[i].ParentLink = Nil /\ images[i].SelfLink = Nil
               THEN Op("panic", i, 0, EmptyStr)
               ELSE Op("Parent", i, 0, Parent(images[i]))
    /\ UNCHANGED <<images, urls, maps, bufs, copyOf, nmut>>

(***************************************************************************)
(* What a holder of an *Image can do to it: the fields are exported, the   *)
(* map and the URLs are reached through pointers.                          *)
(***************************************************************************)
Mutated(t) ==
    /\ nmut < MaxMutations
    /\ nmut' = nmut + 1
    /\ last' = Op("mutate", t, 0, EmptyStr)
    /\ UNCHANGED <<images, copyOf>>
    /\ ImageFrame

\* i.Metadata[k][j] = b
SetByte(t, k, j, b) ==
    /\ t \in 1..Len(images)
    /\ images[t].Metadata # Nil
    /\ k \in DOMAIN maps[images[t].Metadata]
    /\ LET ptr == maps[images[t].Metadata][k]
       IN  /\ j \in 1..Len(bufs[ptr])
           /\ bufs[ptr][j] # b
           /\ bufs' = [bufs EXCEPT ![ptr][j] = b]
    /\ Mutated(t)
    /\ UNCHANGED <<urls, maps>>

\* i.Metadata[k] = []byte{b}, k a new key
AddKey(t, k, b) ==
    /\ t \in 1..Len(images)
    /\ images[t].Metadata # Nil
    /\ k \notin DOMAIN maps[images[t].Metadata]
    /\ LET mp == images[t].Metadata
           m == maps[mp]
       IN  /\ bufs' = Append(bufs, <<b>>)
           /\ maps' = [maps EXCEPT ![mp] =
                         [x \in DOMAIN m \cup {k} |->
                            IF x = k THEN Len(bufs) + 1 ELSE m[x]]]
    /\ Mutated(t)
    /\ UNCHANGED urls

\* delete(i.Metadata, k)
DeleteKey(t, k) ==
    /\ t \in 1..Len(images)
    /\ images[t].Metadata # Nil
    /\ k \in DOMAIN maps[images[t].Metadata]
    /\ LET mp == images[t].Metadata
           m == maps[mp]
       IN  maps' = [maps EXCEPT ![mp] = [x \in DOMAIN m \ {k} |-> m[x]]]
    /\ Mutated(t)
    /\ UNCHANGED <<urls, bufs>>

\* i.SelfLink.Path = p, i.ParentLink.Path = p or i.Store.Path = p
SetURLPath(t, f, p) ==
    /\ t \in 1..Len(images)
    /\ images[t][f] # Nil
    /\ urls[images[t][f]].Path # p
    /\ urls' = [urls EXCEPT ![images[t][f]].Path = p]
    /\ Mutated(t)
    /\ UNCHANGED <<maps, bufs>>

AddrPath(store, id) == Join(<<EmptyStr, StorageURLPath, store, id>>, Slash)

\* The addresses the first Image of the heap may carry.
SelfURLs ==
    {PathURL(AddrPath(NameA, NameB)),
     URL(Http, EmptyStr, HostH, AddrPath(NameA, NameB)),
     URL(EmptyStr, EmptyStr, HostH, Join(<<StorageURLPath, NameA, NameB>>, Slash)),
     PathURL(AddrPath(NameA, <<"x", " ", "y">>))}

ParentURLs ==
    {PathURL(AddrPath(NameA, NameA)),
     URL(Http, EmptyStr, EmptyStr, AddrPath(NameA, <<"%">>))}

\* Store is what util.ImageStoreNameToURL made of the store's name.
StoreURLs == {ImageStoreNameToURL(NameA).url}

MutPaths == {AddrPath(NameB, NameA)}

\* The metadata the first Image may carry: none (a nil map), an empty map,
\* one key, two keys (one of them with an empty payload).
MetaChoices ==
    {[maps |-> <<>>, bufs |-> <<>>, ptr |-> Nil],
     [maps |-> <<<<>>>>, bufs |-> <<>>, ptr |-> 1],
     [maps |-> <<[k \in {"k1"} |-> 1]>>, bufs |-> <<<<1>>>>, ptr |-> 1],
     [maps |-> <<[k \in {"k1", "k2"} |-> IF k = "k1" THEN 1 ELSE 2]>>,
      bufs |-> <<<<1, 2>>, <<>>>>, ptr |-> 1]}

ImageIdle ==
    /\ images = <<>> /\ urls = <<>> /\ maps = <<>> /\ bufs = <<>>
    /\ copyOf = <<>> /\ last = NoOp /\ nmut = 0

ImageInit ==
    \E self \in SelfURLs, store \in StoreURLs, md \in MetaChoices :
        /\ \/ /\ urls = <<self, store>>
              /\ images = <<Image(NameB, 1, Nil, 2, md.ptr)>>
           \/ \E parent \in ParentURLs :
                 /\ urls = <<self, store, parent>>
                 /\ images = <<Image(NameB, 1, 3, 2, md.ptr)>>
        /\ maps = md.maps
        /\ bufs = md.bufs
        /\ copyOf = <<0>>
        /\ last = NoOp
        /\ nmut = 0

ImageNext ==
    \E i \in 1..MaxImages :
        \/ Copy(i)
        \/ CallParent(i)
        \/ \E k \in {"k1", "k2"}, b \in Bytes :
              \/ \E j \in 1..2 : SetByte(i, k, j, b)
              \/ AddKey(i, k, b)
              \/ DeleteKey(i, k)
        \/ \E f \in {"SelfLink", "ParentLink", "Store"}, p \in MutPaths :
              SetURLPath(i, f, p)

(***************************************************************************)
(* ImageStorer.WriteImage.  image.go declares the interface alone; the     *)
(* steps of an implementation are those of the design document             *)
(* (writeLayer: resolve the parent, stream the content to the backing      *)
(* store while computing its checksum, reject a checksum mismatch, reject  *)
(* a duplicate id, admit the layer; a deadline may expire before the       *)
(* layer is admitted).  Two callers write concurrently.                    *)
(***************************************************************************)
Writers == {1, 2}
LayerIDs == {"base", "app", "lib"}
ParentRefs == {"none", "base", "missing"}

Layer(parent, by) == [parent |-> parent, by |-> by]

RootLayers == [id \in {"base"} |-> Layer("none", 0)]

NoReq == [id |-> "none", parent |-> "none", sumOK |-> TRUE]

Exists_Never(id) == FALSE

\* "layerID already exists in the target store"
Exists(id) == id \in DOMAIN layers

StoreIdle ==
    /\ layers = <<>>
    /\ wpc = [w \in Writers |-> "idle"]
    /\ wres = [w \in Writers |-> "none"]
    /\ wreq = [w \in Writers |-> NoReq]

StoreInit ==
    /\ layers = RootLayers
    /\ wpc = [w \in Writers |-> "resolve"]
    /\ wres = [w \in Writers |-> "none"]
    /\ wreq \in [Writers -> [id : LayerIDs, parent : ParentRefs, sumOK : BOOLEAN]]

Finish(w, res) ==
    /\ wpc' = [wpc EXCEPT ![w] = "done"]
    /\ wres' = [wres EXCEPT ![w] = res]

\* 1. resolve parentAddress to an existing layer, unless it is the
\*    "no parent" sentinel
Resolve(w) ==
    /\ wpc[w] = "resolve"
    /\ StoreFrame
    /\ IF wreq[w].parent = "none" \/ Exists(wreq[w].parent)
       THEN wpc' = [wpc EXCEPT ![w] = "stream"] /\ UNCHANGED wres
       ELSE Finish(w, "LayerNotFound")
    /\ UNCHANGED <<layers, wreq>>

\* 2. stream the content through the checksum to the backing store; the
\*    content is not addressable yet
Stream(w) ==
    /\ wpc[w] = "stream"
    /\ StoreFrame
    /\ wpc' = [wpc EXCEPT ![w] = "verify"]
    /\ UNCHANGED <<layers, wres, wreq>>

\* 3. a checksum mismatch discards the content; 4. and 5. otherwise the
\*    layer is admitted unless its id exists, in one insert-if-absent step
Admit(w) ==
    /\ wpc[w] = "verify"
    /\ StoreFrame
    /\ IF ~wreq[w].sumOK
       THEN Finish(w, "ChecksumMismatch") /\ UNCHANGED layers
       ELSE IF Exists(wreq[w].id)
       THEN Finish(w, "DuplicateLayer") /\ UNCHANGED layers
       ELSE /\ layers' = [x \in DOMAIN layers \cup {wreq[w].id} |->
                            IF x = wreq[w].id THEN Layer(wreq[w].parent, w)
                            ELSE layers[x]]
            /\ Finish(w, "ok")
    /\ UNCHANGED wreq

\* the caller's deadline expires while the write is in flight
Cancel(w) ==
    /\ wpc[w] \in {"stream", "verify"}
    /\ StoreFrame
    /\ Finish(w, "Cancelled")
    /\ UNCHANGED <<layers, wreq>>

StoreNext == \E w \in Writers : Resolve(w) \/ Stream(w) \/ Admit(w) \/ Cancel(w)

(***************************************************************************)
(* Upgrade.Run.  rin holds what each collaborator will answer; rtrace      *)
(* records the calls Run makes, in order.                                  *)
(***************************************************************************)
RunInputs ==
    [credsErr : BOOLEAN, debug : {0, 1}, nargs : {0, 1}, imagesErr : BOOLEAN,
     validatorErr : BOOLEAN, hasID : BOOLEAN, vchErr : BOOLEAN,
     configErr : BOOLEAN, upgradeErr : BOOLEAN]

NoRunInputs ==
    [credsErr |-> FALSE, debug |-> 0, nargs |-> 0, imagesErr |-> FALSE,
     validatorErr |-> FALSE, hasID |-> FALSE, vchErr |-> FALSE,
     configErr |-> FALSE, upgradeErr |-> FALSE]

RunIdle ==
    /\ rpc = "idle" /\ rin = NoRunInputs /\ rtrace = <<>>
    /\ rret = "none" /\ insecure = FALSE

RunInit ==
    /\ rpc = "processParams" /\ rin \in RunInputs /\ rtrace = <<>>
    /\ rret = "none" /\ insecure = FALSE

\* Run calls `call` and goes on at `next`
Step(call, next) ==
    /\ rtrace' = Append(rtrace, call)
    /\ rpc' = next
    /\ UNCHANGED <<rin, rret>>

\* Run calls `call`, which fails, and returns a non-nil error
Fail(call) ==
    /\ rtrace' = Append(rtrace, call)
    /\ rpc' = "done"
    /\ rret' = "err"
    /\ UNCHANGED rin

ArgsGiven_Never(in) == FALSE

\* if len(cli.Args()) > 0
ArgsGiven(in) == in.nargs > 0

\* if err = executor.Upgrade(vch, vchConfig, vConfig); err != nil
UpgradeFailed(in) == in.upgradeErr

\* if err = u.processParams(); err != nil { return err }
ProcessParams ==
    /\ rpc = "processParams"
    /\ RunFrame
    /\ IF rin.credsErr
       THEN Fail("processParams") /\ UNCHANGED insecure
       ELSE Step("processParams", "setDebug") /\ insecure' = TRUE

\* if u.Debug.Debug > 0 { log.SetLevel(log.DebugLevel) ... }
SetDebug ==
    /\ rpc = "setDebug"
    /\ RunFrame
    /\ IF rin.debug > 0
       THEN Step("SetLevel", "checkArgs")
       ELSE rpc' = "checkArgs" /\ UNCHANGED <<rtrace, rin, rret>>
    /\ UNCHANGED insecure

CheckArgs ==
    /\ rpc = "checkArgs"
    /\ RunFrame
    /\ IF ArgsGiven(rin)
       THEN Fail("cli.Args")
       ELSE Step("cli.Args", "CheckImagesFiles")
    /\ UNCHANGED insecure

CheckImagesFiles ==
    /\ rpc = "CheckImagesFiles"
    /\ RunFrame
    /\ IF rin.imagesErr
       THEN Fail("CheckImagesFiles")
       ELSE Step("CheckImagesFiles", "NewValidator")
    /\ UNCHANGED insecure

\* validate.NewValidator, then management.NewDispatcher
NewValidator ==
    /\ rpc = "NewValidator"
    /\ RunFrame
    /\ IF rin.validatorErr
       THEN Fail("NewValidator")
       ELSE Step("NewValidator", "lookupVCH")
    /\ UNCHANGED insecure

\* executor.NewVCHFromID or executor.NewVCHFromComputePath
LookupVCH ==
    /\ rpc = "lookupVCH"
    /\ RunFrame
    /\ LET call == IF rin.hasID THEN "NewVCHFromID" ELSE "NewVCHFromComputePath"
       IN  IF rin.vchErr THEN Fail(call) ELSE Step(call, "GetVCHConfig")
    /\ UNCHANGED insecure

\* executor.GetVCHConfig; on success InitDiagnosticLogs and
\* AddDeprecatedFields follow
GetVCHConfig ==
    /\ rpc = "GetVCHConfig"
    /\ RunFrame
    /\ IF rin.configErr
       THEN Fail("GetVCHConfig")
       ELSE /\ rtrace' = rtrace \o <<"GetVCHConfig", "InitDiagnosticLogs",
                                     "AddDeprecatedFields">>
            /\ rpc' = "Upgrade"
            /\ UNCHANGED <<rin, rret>>
    /\ UNCHANGED insecure

\* executor.Upgrade, then CollectDiagnosticLogs and return err, or
\* log "Completed successfully" and return nil
Upgrade ==
    /\ rpc = "Upgrade"
    /\ RunFrame
    /\ IF UpgradeFailed(rin)
       THEN /\ rtrace' = rtrace \o <<"Upgrade", "CollectDiagnosticLogs">>
            /\ rret' = "err"
       ELSE /\ rtrace' = rtrace \o <<"Upgrade", "Completed successfully">>
            /\ rret' = "nil"
    /\ rpc' = "done"
    /\ UNCHANGED <<rin, insecure>>

RunNext ==
    \/ ProcessParams
    \/ SetDebug
    \/ CheckArgs
    \/ CheckImagesFiles
    \/ NewValidator
    \/ LookupVCH
    \/ GetVCHConfig
    \/ Upgrade

(***************************************************************************)
(* Specifications: each exercises one part of the program and leaves the   *)
(* other parts idle.                                                       *)
(***************************************************************************)
InitParse == ParseInit /\ ImageIdle /\ StoreIdle /\ RunIdle
ParseNext == ParseCall
SpecParse == InitParse /\ [][ParseNext]_vars

InitImage == ImageInit /\ ParseIdle /\ StoreIdle /\ RunIdle
SpecImage == InitImage /\ [][ImageNext]_vars

InitStore == StoreInit /\ ParseIdle /\ ImageIdle /\ RunIdle
SpecStore == InitStore /\ [][StoreNext]_vars

InitRun == RunInit /\ ParseIdle /\ ImageIdle /\ StoreIdle
SpecRun == InitRun /\ [][RunNext]_vars

(***************************************************************************)
(* Properties of storage.Parse (SpecParse).                                *)
(***************************************************************************)
\* A store name or layer id: not empty, no slash, not a relative segment.
ValidName(n) == n # EmptyStr /\ ~HasChar(n, Slash) /\ n \notin {Dot, DotDot}

\* The segments of a normalized absolute path, after the root.
Normalized(p) == SelectSeq(Split(Clean(p), Slash), LAMBDA e : e # EmptyStr)

\* C1: address round-trip.  For every valid store name s and layer id l,
\* Parse of the URL with path /storage/s/l returns an Image with ID l, the
\* store address of s and the input path as SelfLink, and no error.
C1_AddressRoundTrip ==
    ppc = "done" =>
        \A s \in PathSegs, l \in PathSegs :
            (ValidName(s) /\ ValidName(l) /\ pu.Path = AddrPath(s, l)) =>
                /\ pret.kind = "image"
                /\ pret.img.ID = l
                /\ pret.img.Store = ImageStoreNameToURL(s).url
                /\ pret.img.SelfLink.Path = AddrPath(s, l)

\* C2: Parse returns an error for a path that is not absolute, for one that
\* once normalized does not begin with the storage prefix, and for one with
\* fewer than two segments after the prefix.
C2_MalformedAddressRejected ==
    ppc = "done" =>
        LET n == Normalized(pu.Path)
        IN  (\/ ~IsAbs(pu.Path)
             \/ Len(n) = 0
             \/ n[1] # StorageURLPath
             \/ Len(n) < 3) => pret.kind = "error"

\* Parse has run on /storage/<store-id>, or on a non-normalized spelling of
\* it, and returned an error.
C2_Witness ==
    /\ ppc = "done"
    /\ IsAbs(pu.Path)
    /\ Normalized(pu.Path) = <<StorageURLPath, NameA>>
    /\ pret.kind = "error"

\* C7: Parse returns no Image for a path with three or more segments after
\* /storage: trailing segments are never dropped silently.
C7_NoTrailingSegments ==
    ppc = "done" =>
        LET n == Normalized(pu.Path)
        IN  (IsAbs(pu.Path) /\ Len(n) >= 4 /\ n[1] = StorageURLPath)
                => pret.kind # "image"

\* Parse has run on a path with three segments after /storage.
C7_Witness ==
    /\ ppc = "done"
    /\ IsAbs(pu.Path)
    /\ Normalized(pu.Path) = <<StorageURLPath, NameA, NameB, NameA>>
    /\ pret.kind = "error"

DeepURL(ptr) == IF ptr = Nil THEN <<>> ELSE <<urls[ptr]>>

DeepMeta(mp) ==
    IF mp = Nil THEN <<>>
    ELSE <<[k \in DOMAIN maps[mp] |-> bufs[maps[mp][k]]]>>

Deep(i) ==
    [ID |-> images[i].ID,
     SelfLink |-> DeepURL(images[i].SelfLink),
     ParentLink |-> DeepURL(images[i].ParentLink),
     Store |-> DeepURL(images[i].Store),
     Metadata |-> DeepMeta(images[i].Metadata)]

\* C3: copy independence.  With c a copy of i, a mutation applied to c
\* (a payload byte, a metadata key added or deleted, a field of one of its
\* URLs) leaves every field of i unchanged, and a mutation applied to i
\* leaves c unchanged.
C3_CopyIndependence ==
    [][\A c \in 1..Len(images) :
          (copyOf[c] # 0 /\ last'.op = "mutate") =>
              /\ (last'.recv = c => Deep(copyOf[c])' = Deep(copyOf[c]))
              /\ (last'.recv = copyOf[c] => Deep(c)' = Deep(c))]_vars

\* A copy's metadata has been mutated and now differs from the original's.
C3_Witness ==
    \E c \in 1..Len(images) :
        /\ copyOf[c] # 0
        /\ last.op = "mutate"
        /\ last.recv = c
        /\ images[c].Metadata # Nil
        /\ DeepMeta(images[c].Metadata) # DeepMeta(images[copyOf[c]].Metadata)

SameAddress(p, q) ==
    /\ (p = Nil) <=> (q = Nil)
    /\ p # Nil /\ q # Nil => UrlString(urls[p]) = UrlString(urls[q])

\* C4: copy preserves value.  Right after c = i.Copy(): the same ID;
\* SelfLink and Store set and rendering to the same strings as i's;
\* ParentLink absent exactly when i's is, else rendering to the same string;
\* and when i has metadata, the same keys with payloads of the same length
\* and content.
C4_CopyPreservesValue ==
    last.op = "Copy" =>
        LET i == images[last.recv]
            c == images[last.ret]
        IN  /\ c.ID = i.ID
            /\ c.SelfLink # Nil /\ SameAddress(c.SelfLink, i.SelfLink)
            /\ c.Store # Nil /\ SameAddress(c.Store, i.Store)
            /\ SameAddress(c.ParentLink, i.ParentLink)
            /\ i.Metadata # Nil =>
                 /\ c.Metadata # Nil
                 /\ DOMAIN maps[c.Metadata] = DOMAIN maps[i.Metadata]
                 /\ \A k \in DOMAIN maps[i.Metadata] :
                        /\ Len(bufs[maps[c.Metadata][k]]) = Len(bufs[maps[i.Metadata][k]])
                        /\ bufs[maps[c.Metadata][k]] = bufs[maps[i.Metadata][k]]

\* An Image with a parent and two metadata keys has just been copied, and
\* the copy's re-parsed SelfLink is not the same URL value as the original's.
C4_Witness ==
    /\ last.op = "Copy"
    /\ images[last.recv].ParentLink # Nil
    /\ images[last.recv].Metadata # Nil
    /\ Cardinality(DOMAIN maps[images[last.recv].Metadata]) = 2
    /\ urls[images[last.ret].SelfLink] # urls[images[last.recv].SelfLink]

\* C5 as stated: an Image whose Metadata is nil or has no entries is copied
\* to an Image whose Metadata is nil.
C5_EmptyOrAbsentYieldsAbsent ==
    last.op = "Copy" =>
        LET i == images[last.recv]
            c == images[last.ret]
        IN  (i.Metadata = Nil \/ DOMAIN maps[i.Metadata] = {}) => c.Metadata = Nil

\* C5 amended: the copy's Metadata is nil exactly when the source's is; a
\* source map with no entries is copied to a new map with no entries.
C5_AbsentIffAbsent ==
    last.op = "Copy" =>
        LET i == images[last.recv]
            c == images[last.ret]
        IN  /\ (c.Metadata = Nil) <=> (i.Metadata = Nil)
            /\ (i.Metadata # Nil /\ DOMAIN maps[i.Metadata] = {}) =>
                   /\ c.Metadata # Nil
                   /\ c.Metadata # i.Metadata
                   /\ DOMAIN maps[c.Metadata] = {}

\* An Image with an empty, non-nil Metadata map has just been copied.
C5_Witness ==
    /\ last.op = "Copy"
    /\ images[last.recv].Metadata # Nil
    /\ DOMAIN maps[images[last.recv].Metadata] = {}

\* C6: Parent() returns the string of ParentLink when it is set and exactly
\* Self(), the string of SelfLink, when it is not; the address it returns is
\* never empty.
C6_ParentOrSelf ==
    last.op = "Parent" =>
        LET i == images[last.recv]
        IN  /\ i.ParentLink # Nil => last.str = UrlString(urls[i.ParentLink])
            /\ i.ParentLink = Nil => last.str = UrlString(urls[i.SelfLink])
            /\ last.str # EmptyStr

\* Parent() has been called on an Image without a parent.
C6_Witness ==
    /\ last.op = "Parent"
    /\ images[last.recv].ParentLink = Nil
    /\ last.str = UrlString(urls[images[last.recv].SelfLink])

(***************************************************************************)
(* Properties of WriteImage (SpecStore).                                   *)
(***************************************************************************)
\* A request that nothing but a duplicate id can fail: the content matches
\* its checksum, the parent exists, the deadline did not expire.
Admissible(w) ==
    /\ wreq[w].sumOK
    /\ wreq[w].parent \in {"none"} \cup DOMAIN RootLayers
    /\ wres[w] # "Cancelled"

\* C8: write uniqueness.  Of two concurrent WriteImage calls with the same
\* store and layer id at most one succeeds; when nothing else fails them and
\* the id is new, exactly one succeeds and the other fails with
\* DuplicateLayer; and a layer in the store is never overwritten.
C8_WriteUniqueness ==
    /\ [](\A w1 \in Writers, w2 \in Writers :
            (/\ w1 # w2
             /\ wpc[w1] = "done" /\ wpc[w2] = "done"
             /\ wreq[w1].id = wreq[w2].id) =>
                /\ ~(wres[w1] = "ok" /\ wres[w2] = "ok")
                /\ (/\ Admissible(w1) /\ Admissible(w2)
                    /\ wreq[w1].id \notin DOMAIN RootLayers)
                       => {wres[w1], wres[w2]} = {"ok", "DuplicateLayer"})
    /\ [][\A id \in DOMAIN layers :
            id \in DOMAIN layers' /\ layers'[id] = layers[id]]_vars

\* Two writers of the same new layer id have both returned: one admitted
\* the layer, the other failed with DuplicateLayer.
C8_Witness ==
    /\ wpc[1] = "done" /\ wpc[2] = "done"
    /\ wreq[1].id = "app" /\ wreq[2].id = "app"
    /\ wres[1] = "DuplicateLayer" /\ wres[2] = "ok"
    /\ layers["app"].by = 2

(***************************************************************************)
(* Properties of Upgrade.Run (SpecRun).                                    *)
(***************************************************************************)
RunOrder ==
    <<"processParams", "cli.Args", "CheckImagesFiles", "NewValidator",
      "lookupVCH", "GetVCHConfig", "Upgrade">>

\* Whether the collaborator behind a step answers with an error.
StepFails(step) ==
    CASE step = "processParams" -> rin.credsErr
      [] step = "cli.Args" -> rin.nargs > 0
      [] step = "CheckImagesFiles" -> rin.imagesErr
      [] step = "NewValidator" -> rin.validatorErr
      [] step = "lookupVCH" -> rin.vchErr
      [] step = "GetVCHConfig" -> rin.configErr
      [] step = "Upgrade" -> rin.upgradeErr

FailingSteps == {k \in 1..Len(RunOrder) : StepFails(RunOrder[k])}

\* The steps Run is to make: all of them, or those up to the first failure.
ExpectedSteps ==
    IF FailingSteps = {} THEN RunOrder
    ELSE SubSeq(RunOrder, 1,
                CHOOSE k \in FailingSteps : \A j \in FailingSteps : k <= j)

StepName(call) ==
    IF call \in {"NewVCHFromID", "NewVCHFromComputePath"} THEN "lookupVCH" ELSE call

\* The steps of RunOrder among the calls made so far, in the order made.
StepsRun ==
    LET calls == SelectSeq(rtrace,
                    LAMBDA c : \E k \in 1..Len(RunOrder) : RunOrder[k] = StepName(c))
    IN  [k \in 1..Len(calls) |-> StepName(calls[k])]

Called(call) == \E k \in 1..Len(rtrace) : rtrace[k] = call

\* C10: Run makes its steps in the fixed order and stops at the first that
\* fails, returning a non-nil error; CollectDiagnosticLogs is called if and
\* only if executor.Upgrade returned an error; "Completed successfully" is
\* logged and nil returned only when every step succeeded.
C10_RunOrder ==
    /\ Len(StepsRun) <= Len(ExpectedSteps)
    /\ StepsRun = SubSeq(ExpectedSteps, 1, Len(StepsRun))
    /\ Called("CollectDiagnosticLogs") => Called("Upgrade") /\ rin.upgradeErr
    /\ Called("Completed successfully") => FailingSteps = {} /\ Called("Upgrade")
    /\ rpc = "done" =>
          /\ StepsRun = ExpectedSteps
          /\ rret \in {"nil", "err"}
          /\ (rret = "err") <=> (FailingSteps # {})
          /\ (rret = "nil") <=> Called("Completed successfully")
          /\ (Called("Upgrade") /\ rin.upgradeErr) => Called("CollectDiagnosticLogs")

\* Run has returned the error of executor.Upgrade, the last of its steps,
\* after collecting the diagnostic logs.
C10_Witness ==
    /\ rpc = "done"
    /\ rret = "err"
    /\ StepsRun = RunOrder
    /\ Called("CollectDiagnosticLogs")

====
